---- MODULE Spec2Model ----
(***************************************************************************)
(* State-machine model of S&P500-trading.py: the hourly main loop, one     *)
(* scan cycle of monitor_and_trade, the per-symbol pipeline                *)
(* (calculate_indicators, filter_stocks, evaluate_trading_signals,         *)
(* place_order) and the brokerage account the script reads and writes      *)
(* through ib.positions() / ib.placeOrder().                               *)
(*                                                                         *)
(* Numbers: prices and indicator values are integers; Volatility is kept   *)
(* in units of 1e-4 (0.02 is 200); the clock is minutes since midnight     *)
(* US/Eastern.  The rolling / ewm arithmetic of pandas is library code:    *)
(* a downloaded frame carries, per bar, the close together with the raw    *)
(* columns pandas derives from the bars (NaN where a window is not filled).*)
(* The script's own logic on those columns (length gates, fill policy,     *)
(* thresholds, dropna, comparisons, order sizing) is modelled as written.  *)
(***************************************************************************)
EXTENDS Integers, Sequences, FiniteSets, Bags, TLC

(* ------------------------------ bounds -------------------------------- *)
\* number of symbols on the index list
NumSymbols == 2
\* orders the brokerage accepts in one run of the script
MaxOrders == 2
\* lots of DefaultQty shares of a symbol the account may hold at the start
MaxInitLots == 1
\* rows of the tables evaluate_trading_signals is applied to on its own
MaxRows == 2

(* ------------------------- program constants -------------------------- *)
\* float NaN of pandas (pd.isna, dropna, fillna)
NaN == -999999
MinBars == 26
MinRows == 10
SmaWindow == 20
RsiWindow == 14
LiquidityWindow == 10
DefaultMinVolume == 1000000
DefaultMinVolatility == 200
RsiNeutral == 50
DefaultQty == 10
MarketOpenMin == 570
MarketCloseMin == 960

(* ------------------------------- state -------------------------------- *)
VARIABLES
    pc,                \* where the script is
    now,               \* wall clock, minutes since midnight US/Eastern
    listing,           \* the index list as published
    sp500_stocks,      \* monitor_and_trade: the list being scanned
    idx,               \* monitor_and_trade: index of stock_symbol in the list
    data,              \* monitor_and_trade: the frame of stock_symbol, or None
    signal,            \* monitor_and_trade: the signal of stock_symbol
    current_position,  \* place_order: the position it read
    order,             \* place_order: the order handed to ib.placeOrder
    position,          \* brokerage: net position per symbol
    pending,           \* brokerage: bag of orders accepted and not yet filled
    accepted,          \* brokerage: number of orders accepted so far
    paced,             \* time.sleep(2) ran since the last bar fetch began
    processed,         \* the symbols this scan has dealt with, in order
    mishap,            \* a symbol of this scan was skipped or had its order refused
    audit,             \* whether the journal is kept
    journal            \* the last two pipeline runs that reached place_order

vars == <<pc, now, listing, sp500_stocks, idx, data, signal, current_position,
          order, position, pending, accepted, paced, processed, mishap, audit,
          journal>>

NoOrder == [side |-> "NONE", qty |-> 0]
None == [columns |-> <<>>, rows |-> <<>>, isNone |-> TRUE]

isna(x) == x = NaN
\* Python float comparisons: any comparison with NaN is False
Gt(a, b) == ~isna(a) /\ ~isna(b) /\ a > b
Lt(a, b) == ~isna(a) /\ ~isna(b) /\ a < b

Min(a, b) == IF a < b THEN a ELSE b

(* --------------------------- column labels ---------------------------- *)
\* yf.download labels its columns with (field, ticker) tuples, which is what
\* line 107 flattens; the columns calculate_indicators adds are labelled
\* (name, "").
RequiredColumns == <<"Close", "SMA", "MACD", "Signal", "RSI">>
FrameColumns == <<"Close", "SMA", "MACD", "Signal", "RSI", "Volatility", "AvgVolume">>

Initial(name) ==
    CASE name = "Close" -> "C"
      [] name = "SMA" -> "S"
      [] name = "MACD" -> "M"
      [] name = "Signal" -> "S"
      [] name = "RSI" -> "R"
      [] name = "Volatility" -> "V"
      [] name = "AvgVolume" -> "A"
      [] OTHER -> name

TupleLabel(name) == [kind |-> "tuple", name |-> name]

DownloadColumns == [i \in 1..Len(FrameColumns) |-> TupleLabel(FrameColumns[i])]

\* col[0]: the first element of a tuple label, the first character of a string label
FirstOf(col) ==
    IF col.kind = "tuple"
    THEN [kind |-> "str", name |-> col.name]
    ELSE [kind |-> "str", name |-> Initial(col.name)]

\* data.columns = [col[0] for col in data.columns]
FlattenColumns(cols) == [i \in 1..Len(cols) |-> FirstOf(cols[i])]

\* col in data.columns, for a plain string col
HasColumn(cols, name) ==
    \E i \in 1..Len(cols) : cols[i] = [kind |-> "str", name |-> name]

\* data[name] resolves on the freshly built frame (tuple labels) too
HasField(cols, name) ==
    \E i \in 1..Len(cols) : cols[i].name = name

Last(s) == s[Len(s)]

(* ---------------------- evaluate_trading_signals ---------------------- *)
RowComplete(r) ==
    /\ ~isna(r.Close)
    /\ ~isna(r.SMA)
    /\ ~isna(r.MACD)
    /\ ~isna(r.Signal)
    /\ ~isna(r.RSI)

\* dropna left out: every row is kept
DropNaKeepsAll(rows) == rows

\* data.dropna(subset=required_columns)
DropNa(rows) == SelectSeq(rows, RowComplete)

SignalOfRow(latest) ==
    IF Gt(latest.Close, latest.SMA) /\ Gt(latest.MACD, latest.Signal)
       /\ Gt(latest.RSI, RsiNeutral)
    THEN "BUY"
    ELSE IF Lt(latest.Close, latest.SMA) /\ Lt(latest.MACD, latest.Signal)
            /\ Lt(latest.RSI, RsiNeutral)
         THEN "SELL"
         ELSE "HOLD"

\* the value returned, given the labels after flattening and the rows
evaluate_trading_signals(cols, rows) ==
    IF ~(\A i \in 1..Len(RequiredColumns) : HasColumn(cols, RequiredColumns[i]))
    THEN "HOLD"
    ELSE IF DropNa(rows) = <<>>
         THEN "HOLD"
         ELSE SignalOfRow(Last(DropNa(rows)))

(* ------------------------ calculate_indicators ------------------------ *)
\* rolling(window=w): NaN until the window is filled, then the window's value
Rolling(raw, i, firstValid) == IF i < firstValid THEN NaN ELSE raw

\* fillna(value)
FillNa(x, value) == IF isna(x) THEN value ELSE x

\* fillna(method="ffill") of the SMA column: a NaN takes the last earlier
\* non-NaN value; leading NaNs stay
RECURSIVE FFillSMA(_, _)
FFillSMA(rows, i) ==
    IF i = 0 THEN NaN
    ELSE IF ~isna(rows[i].SMA) THEN rows[i].SMA
         ELSE FFillSMA(rows, i - 1)

\* the columns as computed on lines 31-61, before the fill policy
ComputedRow(bars, i) ==
    LET n == Len(bars)
        sma_window == Min(SmaWindow, n)
    IN [Close |-> bars[i].Close,
        SMA |-> Rolling(bars[i].sma, i, sma_window),
        MACD |-> IF n >= MinBars THEN bars[i].macd ELSE NaN,
        Signal |-> IF n >= MinBars THEN bars[i].sig ELSE NaN,
        RSI |-> IF n >= RsiWindow THEN Rolling(bars[i].rsi, i, RsiWindow) ELSE NaN,
        Volatility |-> Rolling(bars[i].vol, i, LiquidityWindow + 1),
        AvgVolume |-> Rolling(bars[i].avgvol, i, LiquidityWindow)]

ComputedRows(bars) == [i \in 1..Len(bars) |-> ComputedRow(bars, i)]

\* lines 64-69
FilledRows(rows) ==
    [i \in 1..Len(rows) |->
        [Close |-> rows[i].Close,
         SMA |-> FFillSMA(rows, i),
         MACD |-> FillNa(rows[i].MACD, 0),
         Signal |-> FillNa(rows[i].Signal, 0),
         RSI |-> FillNa(rows[i].RSI, RsiNeutral),
         Volatility |-> FillNa(rows[i].Volatility, 0),
         AvgVolume |-> FillNa(rows[i].AvgVolume, 0)]]

\* dl is what yf.download did: raised, or returned a frame of bars
calculate_indicators(dl) ==
    IF dl.raised THEN None
    ELSE IF dl.bars = <<>> \/ Len(dl.bars) < MinBars THEN None
    ELSE IF \E i \in 1..Len(RequiredColumns) :
               ~HasField(DownloadColumns, RequiredColumns[i])
         THEN None
         ELSE [columns |-> DownloadColumns,
               rows |-> FilledRows(ComputedRows(dl.bars)),
               isNone |-> FALSE]

(* ---------------------------- filter_stocks --------------------------- *)
\* the volume threshold taken as inclusive
filter_stocks_inclusive(d) ==
    LET avg_volume == Last(d.rows).AvgVolume
        volatility == Last(d.rows).Volatility
    IN IF isna(avg_volume) \/ isna(volatility) THEN FALSE
       ELSE avg_volume >= DefaultMinVolume /\ Gt(volatility, DefaultMinVolatility)

filter_stocks(d) ==
    LET avg_volume == Last(d.rows).AvgVolume
        volatility == Last(d.rows).Volatility
    IN IF ~HasField(d.columns, "AvgVolume") \/ ~HasField(d.columns, "Volatility")
       THEN FALSE
       ELSE IF isna(avg_volume) \/ isna(volatility) THEN FALSE
       ELSE Gt(avg_volume, DefaultMinVolume) /\ Gt(volatility, DefaultMinVolatility)

(* ----------------------------- place_order ---------------------------- *)
\* the SELL branch without its holding check
OrderForUnguardedSell(action, cur) ==
    IF action = "BUY"
    THEN IF cur > 0 THEN NoOrder ELSE [side |-> "BUY", qty |-> DefaultQty]
    ELSE IF action = "SELL"
         THEN [side |-> "SELL", qty |-> cur]
         ELSE NoOrder

\* no order while the brokerage still holds an unfilled one
OrderForUnlessPending(action, cur) ==
    IF pending # EmptyBag THEN NoOrder
    ELSE IF action = "BUY"
    THEN IF cur > 0 THEN NoOrder ELSE [side |-> "BUY", qty |-> DefaultQty]
    ELSE IF action = "SELL"
         THEN IF cur <= 0 THEN NoOrder ELSE [side |-> "SELL", qty |-> cur]
         ELSE NoOrder

\* the MarketOrder place_order builds from the action and the position it
\* read; an action that is neither BUY nor SELL leaves `order` unbound, the
\* NameError is caught on line 175 and nothing is submitted
OrderFor(action, cur) ==
    IF action = "BUY"
    THEN IF cur > 0 THEN NoOrder ELSE [side |-> "BUY", qty |-> DefaultQty]
    ELSE IF action = "SELL"
         THEN IF cur <= 0 THEN NoOrder ELSE [side |-> "SELL", qty |-> cur]
         ELSE NoOrder

\* sum(pos.position for pos in positions if pos.contract.symbol == stock_symbol)
RECURSIVE SumMatching(_, _)
SumMatching(positions, sym) ==
    IF positions = <<>> THEN 0
    ELSE (IF Head(positions).symbol = sym THEN Head(positions).position ELSE 0)
         + SumMatching(Tail(positions), sym)

(* --------------------------- is_market_open --------------------------- *)
is_market_open(t) == MarketOpenMin <= t /\ t <= MarketCloseMin

(* ------------------------ what the world supplies --------------------- *)
Symbols == 1..NumSymbols

\* get_sp500_stocks: the index list as published (a list of distinct symbols)
RECURSIVE Range(_, _)
Range(a, b) == IF a > b THEN <<>> ELSE <<a>> \o Range(a + 1, b)
UniverseLists == {Range(k, NumSymbols) : k \in 1..NumSymbols}

\* a bar of a settled series: close on its average, no momentum
SteadyBar ==
    [Close |-> 2, sma |-> 2, macd |-> 0, sig |-> 0, rsi |-> RsiNeutral,
     vol |-> DefaultMinVolatility + 1, avgvol |-> DefaultMinVolume + 1]

\* the latest bar: trend up, trend down, mixed, or a bar without a close
UpTrend == [Close |-> 3, sma |-> 2, macd |-> 1, sig |-> 0, rsi |-> RsiNeutral + 1]
Trends ==
    {UpTrend,
     [Close |-> 1, sma |-> 2, macd |-> -1, sig |-> 0, rsi |-> RsiNeutral - 1],
     [Close |-> 3, sma |-> 2, macd |-> 1, sig |-> 0, rsi |-> RsiNeutral],
     [Close |-> NaN, sma |-> NaN, macd |-> 1, sig |-> 0, rsi |-> NaN]}

\* liquidity of the latest bar: above both thresholds, or one value on its
\* threshold or undefined
Liquid == [avgvol |-> DefaultMinVolume + 1, vol |-> DefaultMinVolatility + 1]
Illiquid ==
    {[avgvol |-> DefaultMinVolume, vol |-> DefaultMinVolatility + 1],
     [avgvol |-> NaN, vol |-> DefaultMinVolatility + 1],
     [avgvol |-> DefaultMinVolume + 1, vol |-> DefaultMinVolatility],
     [avgvol |-> DefaultMinVolume + 1, vol |-> NaN]}

Bar(t, g) ==
    [Close |-> t.Close, sma |-> t.sma, macd |-> t.macd, sig |-> t.sig,
     rsi |-> t.rsi, vol |-> g.vol, avgvol |-> g.avgvol]

Series(n, latest) == [i \in 1..n |-> IF i = n THEN latest ELSE SteadyBar]

\* yf.download(stock_symbol, period="2y", interval="1wk"): raises, or returns
\* no bars, too few bars, or a full history
Downloads ==
    {[raised |-> TRUE, bars |-> <<>>]}
    \cup {[raised |-> FALSE, bars |-> Series(n, Bar(UpTrend, Liquid))] :
            n \in {0, MinRows, MinBars - 1}}
    \cup {[raised |-> FALSE, bars |-> Series(MinBars, Bar(t, Liquid))] : t \in Trends}
    \cup {[raised |-> FALSE, bars |-> Series(MinBars, Bar(UpTrend, g))] : g \in Illiquid}

\* what line 197 gets back for each thing the download can do
Fetched == {[raised |-> dl.raised, data |-> calculate_indicators(dl)] : dl \in Downloads}

\* instants at which the clock is read: before the open, at the closing
\* bell, after the close
ClockSet == {MarketOpenMin - 1, MarketCloseMin, MarketCloseMin + 1}
\* where the clock can stand after some time has passed (days roll over)
Elapse(t) == ClockSet

\* what the account may hold when the script starts
InitHoldings == {DefaultQty * k : k \in 0..MaxInitLots}

stock_symbol == sp500_stocks[idx]

\* ib.positions(): one entry per symbol the account holds
RECURSIVE PositionsFrom(_)
PositionsFrom(k) ==
    IF k > NumSymbols THEN <<>>
    ELSE (IF position[k] # 0
          THEN <<[symbol |-> k, position |-> position[k]]>>
          ELSE <<>>) \o PositionsFrom(k + 1)
ib_positions == PositionsFrom(1)

InitScript ==
    /\ pc = "main"
    /\ now \in ClockSet
    /\ sp500_stocks = <<>>
    /\ idx = 0
    /\ data = None
    /\ signal = "NONE"
    /\ current_position = 0
    /\ order = NoOrder
    /\ pending = EmptyBag
    /\ accepted = 0
    /\ paced = FALSE
    /\ processed = <<>>
    /\ mishap = FALSE
    /\ journal = <<>>

Init ==
    /\ InitScript
    /\ listing \in UniverseLists
    /\ position \in [Symbols -> InitHoldings]
    /\ audit = FALSE

\* the locals of one loop iteration are dead once it ends
ClearLocals ==
    /\ data' = None
    /\ signal' = "NONE"
    /\ current_position' = 0
    /\ order' = NoOrder

\* the iteration of stock_symbol is over; bad tells how it went
Note(bad) ==
    /\ processed' = Append(processed, stock_symbol)
    /\ mishap' = (mishap \/ bad)

\* `break` in place of `continue`: the scan returns
Break == "sleep_hour"

\* `continue` on lines 203 and 208: back to the for statement
Continue == "for"

(* ------------------------------ main loop ------------------------------ *)
\* lines 226-230: the hourly check
MainCheck ==
    /\ pc = "main"
    /\ pc' = IF is_market_open(now) THEN "monitor" ELSE "sleep_hour"
    /\ UNCHANGED <<now, listing, sp500_stocks, idx, data, signal,
                   current_position, order, position, pending, accepted,
                   paced, processed, mishap, audit, journal>>

\* line 231: time.sleep(3600); the scan, if there was one, has returned
SleepHour ==
    /\ pc = "sleep_hour"
    /\ pc' = "main"
    /\ now' \in Elapse(now)
    /\ sp500_stocks' = <<>>
    /\ idx' = 0
    /\ processed' = <<>>
    /\ mishap' = FALSE
    /\ paced' = FALSE
    /\ UNCHANGED <<listing, data, signal, current_position, order, position,
                   pending, accepted, audit, journal>>

(* --------------------------- monitor_and_trade ------------------------- *)
\* line 190: get_sp500_stocks() returns the list, or pd.read_html raises;
\* nothing between there and the top of the script catches the exception
FetchUniverse ==
    /\ pc = "monitor"
    /\ \/ /\ sp500_stocks' = listing
          /\ pc' = "for"
       \/ /\ pc' = "terminated"
          /\ UNCHANGED sp500_stocks
    /\ UNCHANGED <<now, listing, idx, data, signal, current_position, order,
                   position, pending, accepted, paced, processed, mishap,
                   audit, journal>>

\* line 193: the for statement takes the next symbol, or the scan returns
ForNext ==
    /\ pc = "for"
    /\ IF idx < Len(sp500_stocks)
       THEN /\ idx' = idx + 1
            /\ pc' = "calc"
       ELSE /\ pc' = "sleep_hour"
            /\ UNCHANGED idx
    /\ UNCHANGED <<now, listing, sp500_stocks, data, signal, current_position,
                   order, position, pending, accepted, paced, processed,
                   mishap, audit, journal>>

\* lines 197-203: fetch the bars (which takes time), compute, skip if unusable
CalcIndicators ==
    /\ pc = "calc"
    /\ \E f \in Fetched :
        IF f.data.isNone \/ Len(f.data.rows) < MinRows
        THEN /\ pc' = Continue
             /\ data' = None
             /\ Note(TRUE)
        ELSE /\ pc' = "filter"
             /\ data' = f.data
             /\ UNCHANGED <<processed, mishap>>
    /\ now' \in Elapse(now)
    /\ paced' = FALSE
    /\ UNCHANGED <<listing, sp500_stocks, idx, signal, current_position,
                   order, position, pending, accepted, audit, journal>>

\* lines 206-208
Filter ==
    /\ pc = "filter"
    /\ IF ~filter_stocks(data)
       THEN /\ pc' = Continue
            /\ data' = None
            /\ Note(TRUE)
       ELSE /\ pc' = "evaluate"
            /\ UNCHANGED <<data, processed, mishap>>
    /\ UNCHANGED <<now, listing, sp500_stocks, idx, signal, current_position,
                   order, position, pending, accepted, paced, audit, journal>>

\* lines 211-212; line 107 relabels the caller's frame in place
Evaluate ==
    /\ pc = "evaluate"
    /\ data' = [data EXCEPT !.columns = FlattenColumns(data.columns)]
    /\ signal' = evaluate_trading_signals(data'.columns, data'.rows)
    /\ pc' = "dispatch"
    /\ UNCHANGED <<now, listing, sp500_stocks, idx, current_position, order,
                   position, pending, accepted, paced, processed, mishap,
                   audit, journal>>

Run ==
    [symbol |-> stock_symbol, rows |-> data.rows, signal |-> signal,
     current_position |-> current_position', order |-> order']

LastTwo(s) == IF Len(s) > 2 THEN Tail(s) ELSE s

\* lines 214-219 with place_order (152-176): read the position, build the
\* order, hand it to ib.placeOrder, which accepts it or raises
Dispatch ==
    /\ pc = "dispatch"
    /\ IF signal \in {"BUY", "SELL"}
       THEN /\ current_position' = SumMatching(ib_positions, stock_symbol)
            /\ order' = OrderFor(signal, current_position')
            /\ IF order' = NoOrder
               THEN /\ UNCHANGED <<pending, accepted>>
                    /\ Note(FALSE)
               ELSE \/ /\ accepted < MaxOrders
                       /\ accepted' = accepted + 1
                       /\ pending' = pending (+) SetToBag({[symbol |-> stock_symbol,
                                                            side |-> order'.side,
                                                            qty |-> order'.qty]})
                       /\ Note(FALSE)
                    \/ /\ UNCHANGED <<pending, accepted>>
                       /\ Note(TRUE)
       ELSE /\ UNCHANGED <<current_position, order, pending, accepted>>
            /\ Note(FALSE)
    /\ journal' = IF audit THEN LastTwo(Append(journal, Run)) ELSE journal
    /\ pc' = "pace"
    /\ UNCHANGED <<now, listing, sp500_stocks, idx, data, signal, position,
                   paced, audit>>

\* line 222: time.sleep(2), the end of the iteration
Pace ==
    /\ pc = "pace"
    /\ paced' = TRUE
    /\ now' \in Elapse(now)
    /\ pc' = "for"
    /\ ClearLocals
    /\ UNCHANGED <<listing, sp500_stocks, idx, position, pending, accepted,
                   processed, mishap, audit, journal>>

(* ------------------------------ brokerage ------------------------------ *)
\* the exchange fills a pending market order
Fill ==
    /\ \E o \in BagToSet(pending) :
        /\ position' = [position EXCEPT ![o.symbol] =
                            IF o.side = "BUY" THEN @ + o.qty ELSE @ - o.qty]
        /\ pending' = pending (-) SetToBag({o})
    /\ UNCHANGED <<pc, now, listing, sp500_stocks, idx, data, signal,
                   current_position, order, paced, processed, mishap, audit,
                   journal, accepted>>

Next ==
    \/ MainCheck
    \/ SleepHour
    \/ FetchUniverse
    \/ ForNext
    \/ CalcIndicators
    \/ Filter
    \/ Evaluate
    \/ Dispatch
    \/ Pace
    \/ Fill

Spec == Init /\ [][Next]_vars

\* the same script started with a flat account
InitFlat ==
    /\ Init
    /\ position = [s \in Symbols |-> 0]
SpecFlat == InitFlat /\ [][Next]_vars

\* the same script scanning a one-symbol list, with the journal kept; the
\* account holds nothing in the symbols that are not listed
InitTwice ==
    /\ InitScript
    /\ listing = <<NumSymbols>>
    /\ \E h \in InitHoldings :
          position = [s \in Symbols |-> IF s = NumSymbols THEN h ELSE 0]
    /\ audit = TRUE
SpecTwice == InitTwice /\ [][Next]_vars

\* evaluate_trading_signals applied to a frame of up to MaxRows rows
EvalRow(c, s, m, g, r) ==
    [Close |-> c, SMA |-> s, MACD |-> m, Signal |-> g, RSI |-> r,
     Volatility |-> 0, AvgVolume |-> 0]
EvalRows ==
    {EvalRow(c, 2, m, 0, r) :
        c \in {1, 2, 3}, m \in {-1, 0, 1},
        r \in {RsiNeutral - 1, RsiNeutral, RsiNeutral + 1}}
    \cup {EvalRow(NaN, 2, 1, 0, 51), EvalRow(3, NaN, 1, 0, 51), EvalRow(3, 2, NaN, 0, 51),
          EvalRow(3, 2, 1, NaN, 51), EvalRow(3, 2, 1, 0, NaN), EvalRow(1, NaN, -1, 0, 49),
          EvalRow(NaN, NaN, NaN, NaN, NaN)}
EvalTables == UNION {[1..n -> EvalRows] : n \in 0..MaxRows}

InitEval ==
    /\ pc = "evaluate"
    /\ now \in ClockSet
    /\ sp500_stocks = <<1>>
    /\ idx = 1
    /\ \E t \in EvalTables :
          data = [columns |-> DownloadColumns, rows |-> t, isNone |-> FALSE]
    /\ signal = "NONE"
    /\ current_position = 0
    /\ order = NoOrder
    /\ pending = EmptyBag
    /\ accepted = 0
    /\ paced = FALSE
    /\ processed = <<>>
    /\ mishap = FALSE
    /\ journal = <<>>
    /\ listing = <<1>>
    /\ position = [s \in Symbols |-> 0]
    /\ audit = FALSE
SpecEval == InitEval /\ [][Evaluate]_vars

(* ------------------------------- claims -------------------------------- *)
InCycle == pc \in {"for", "calc", "filter", "evaluate", "dispatch", "pace"}

\* C1: once place_order has run (or the signal was HOLD), the order handed to
\* the brokerage is exactly the one of the table: BUY with position <= 0 gives
\* BUY DefaultQty, SELL with position > 0 gives SELL of the whole position,
\* every other case gives no order; an order never has quantity <= 0.
OrderMatchesTable ==
    pc = "pace" =>
        /\ (signal = "BUY" /\ current_position <= 0)
              => order = [side |-> "BUY", qty |-> DefaultQty]
        /\ (signal = "BUY" /\ current_position > 0) => order = NoOrder
        /\ (signal = "SELL" /\ current_position > 0)
              => order = [side |-> "SELL", qty |-> current_position]
        /\ (signal = "SELL" /\ current_position <= 0) => order = NoOrder
        /\ signal = "HOLD" => order = NoOrder
        /\ order # NoOrder => order.qty > 0
FullCloseSeen ==
    /\ pc = "pace"
    /\ signal = "SELL"
    /\ current_position > DefaultQty
    /\ order = [side |-> "SELL", qty |-> current_position]

\* C2: no symbol's net position is ever negative.
NeverShort == \A s \in Symbols : position[s] >= 0

\* C3: whenever an order has just been handed to the brokerage, the market
\* is open at that moment.
OrdersOnlyWhenOpen == (pc = "pace" /\ order # NoOrder) => is_market_open(now)

\* C4: within a scan the symbols dealt with so far are the first symbols of
\* the list, in list order and once each, whatever happened to each of them;
\* the scan is never stuck or abandoned, and it returns only when every symbol
\* of the list has been dealt with.
ScanStep == ForNext \/ CalcIndicators \/ Filter \/ Evaluate \/ Dispatch \/ Pace
ScanCoversList ==
    /\ InCycle =>
          /\ Len(processed) <= Len(sp500_stocks)
          /\ processed = SubSeq(sp500_stocks, 1, Len(processed))
          /\ Len(processed) = IF pc \in {"for", "pace"} THEN idx ELSE idx - 1
          /\ ENABLED ScanStep
    /\ pc = "sleep_hour" => processed = sp500_stocks
    /\ pc = "terminated" => processed = <<>>
BadSymbolThenRest ==
    /\ pc = "sleep_hour"
    /\ Len(sp500_stocks) > 1
    /\ processed = sp500_stocks
    /\ mishap

\* C5: the process is never ended by an error.
ProcessKeepsRunning == pc # "terminated"

\* C6: the signal returned is decided by the most recent row in which close,
\* sma, macd, macd_signal and rsi are all defined: BUY iff close > sma and
\* macd > macd_signal and rsi > 50, SELL iff close < sma and macd < macd_signal
\* and rsi < 50, HOLD otherwise; never both; HOLD when no row is complete.
IsLatestComplete(rows, i) ==
    /\ RowComplete(rows[i])
    /\ \A j \in (i + 1)..Len(rows) : ~RowComplete(rows[j])
BuyRule(r) == r.Close > r.SMA /\ r.MACD > r.Signal /\ r.RSI > 50
SellRule(r) == r.Close < r.SMA /\ r.MACD < r.Signal /\ r.RSI < 50
SignalFollowsRule ==
    pc = "dispatch" =>
        /\ \A i \in 1..Len(data.rows) :
              IsLatestComplete(data.rows, i) =>
                  /\ signal = "BUY" <=> BuyRule(data.rows[i])
                  /\ signal = "SELL" <=> SellRule(data.rows[i])
                  /\ signal = "HOLD" <=> ~BuyRule(data.rows[i]) /\ ~SellRule(data.rows[i])
                  /\ ~(BuyRule(data.rows[i]) /\ SellRule(data.rows[i]))
        /\ (\A i \in 1..Len(data.rows) : ~RowComplete(data.rows[i])) => signal = "HOLD"
DecidedByEarlierRow ==
    /\ pc = "dispatch"
    /\ Len(data.rows) = 2
    /\ RowComplete(data.rows[1])
    /\ ~RowComplete(data.rows[2])
    /\ signal = "BUY"

\* C7: an order has been handed to the brokerage for a symbol only if its
\* frame has at least 26 rows, its latest AvgVolume is above 1,000,000, its
\* latest Volatility is above 0.02 and its signal is BUY or SELL.
OrderOnlyThroughGates ==
    (pc = "pace" /\ order # NoOrder) =>
        /\ ~data.isNone
        /\ Len(data.rows) >= 26
        /\ Last(data.rows).AvgVolume # NaN
        /\ Last(data.rows).AvgVolume > 1000000
        /\ Last(data.rows).Volatility # NaN
        /\ Last(data.rows).Volatility > 200
        /\ signal \in {"BUY", "SELL"}
OrderThroughGatesSeen ==
    /\ pc = "pace"
    /\ order = [side |-> "BUY", qty |-> DefaultQty]
    /\ Len(data.rows) = 26

\* C8 as stated: two pipeline runs in succession on the same bars of a symbol
\* give the same signal and the same order.
RepeatedRun ==
    /\ Len(journal) = 2
    /\ journal[1].symbol = journal[2].symbol
    /\ journal[1].rows = journal[2].rows
SameSignalSameOrder ==
    RepeatedRun =>
        /\ journal[1].signal = journal[2].signal
        /\ journal[1].order = journal[2].order
\* C8 amended: two pipeline runs in succession on the same bars of a symbol
\* give the same signal, and the same order whenever place_order read the
\* same position in both.
SameSignalSameOrderPerPosition ==
    RepeatedRun =>
        /\ journal[1].signal = journal[2].signal
        /\ journal[1].current_position = journal[2].current_position
              => journal[1].order = journal[2].order
RepeatedOrderSeen ==
    /\ RepeatedRun
    /\ journal[1].signal = "BUY"
    /\ journal[1].current_position = journal[2].current_position
    /\ journal[1].order = [side |-> "BUY", qty |-> DefaultQty]
    /\ journal[2].order = journal[1].order

\* C9: when the bar fetch of a symbol other than the first of the list is
\* about to start, the pacing delay has run since the previous symbol's bar
\* fetch began.
PacedBetweenSymbols == (pc = "calc" /\ idx > 1) => paced

\* C10: started flat, no symbol's position ever exceeds the default order size.
ExposureWithinDefaultQty == \A s \in Symbols : position[s] <= DefaultQty

====
